---- MODULE Spec2Model ----
(***************************************************************************)
(* Model of package gores: the response envelope ResponseVM[T], the error  *)
(* detail ResponseErrorVM and the field error ResponseErrorFieldVM.        *)
(*                                                                         *)
(* Go pointers are addresses (0 is nil).  A ResponseErrorVM lives in       *)
(* `heap` under its address; a *ResponseErrorFieldVM is a record carrying  *)
(* its address together with its two strings (no operation of the package  *)
(* writes a field entry after construction).  A Go slice is a record of    *)
(* its nil-ness, its elements and its capacity.  Memory that nothing       *)
(* references any more is released and its addresses are handed out again. *)
(***************************************************************************)
EXTENDS Integers, Sequences, FiniteSets, TLC

\* ------------------------------------------------------------------ bounds
\* longest variadic argument list / longest ErrorFields list of a gocerr.Error
MaxArgs == 2
\* longest ErrorFields slice the callers of the model build
MaxLen == 2

\* ------------------------------------------------------- program constants
StatusInternalServerError == 500

\* ------------------------------------------------------------ input values
NilPtr == 0
Flows == {1, 2}
Texts == {"message", "boom"}
WrapText == "wrapped: message"
CodeArgs == {200}
CustomCodes == {400, 422}
\* The payload type T an envelope is instantiated with, by its kind:
\* a pointer type (*someStruct), string, or a struct type (someStruct).
PayloadTypes == {"pointer", "string", "struct"}
\* the zero value of a type of kind t, and one of its other values
ZeroValue(t) ==
    CASE t = "pointer" -> "nil"
      [] t = "string" -> ""
      [] t = "struct" -> "someStruct{}"
NonZeroValue(t) ==
    CASE t = "pointer" -> "v"
      [] t = "string" -> "s"
      [] t = "struct" -> "someStruct{v}"

\* gocerr.ErrorField values: the (field, message) pairs a classified error carries
EmailRequired == [Field |-> "email", Message |-> "required"]
PasswordTooShort == [Field |-> "password", Message |-> "too short"]
ErrorFieldPairs == {EmailRequired, PasswordTooShort}

\* all sequences over S of length at most n
SeqUpTo(S, n) == UNION { [1..k -> S] : k \in 0..n }

\* The error values handed to the package:
\*   nil, a gocerr.Error value, a plain error (errors.New(text)), and an
\*   error wrapping a gocerr.Error (fmt.Errorf("...%w", customErr)).
NilErr ==
    [kind |-> "nil", Code |-> 0, Message |-> "", ErrorFields |-> <<>>, text |-> ""]
\* the field lists the classified errors of the model carry
ErrorFieldLists == SeqUpTo(ErrorFieldPairs, MaxArgs)
CustomErrs ==
    { [kind |-> "custom", Code |-> c, Message |-> m, ErrorFields |-> fs, text |-> m] :
        c \in CustomCodes, m \in {"message"}, fs \in ErrorFieldLists }
StdErrs ==
    { [kind |-> "std", Code |-> 0, Message |-> "", ErrorFields |-> <<>>, text |-> t] :
        t \in Texts }
WrappedErrs ==
    { [kind |-> "wrapped", Code |-> c, Message |-> "message", ErrorFields |-> fs,
       text |-> WrapText] :
        c \in {422}, fs \in SeqUpTo(ErrorFieldPairs, 1) }
Errs == {NilErr} \cup CustomErrs \cup StdErrs \cup WrappedErrs

VARIABLES
    vm,            \* vm[f]: the ResponseVM of flow f: [Code, Error, Data]
    cur,           \* cur[f]: the *ResponseErrorVM flow f holds (0: none)
    heap,          \* the allocated ResponseErrorVM objects, by address
    call,          \* call[f]: the last call flow f made, with its locals
    parseUnwraps,  \* whether gocerr.Parse sees through wrapping (fixed)
    typeT          \* the kind of the payload type T of the envelopes (fixed)

vars == <<vm, cur, heap, call, parseUnwraps, typeT>>

\* the zero value of T and the payloads handed to SetData
ZeroData == ZeroValue(typeT)
DataArgs == {ZeroData, NonZeroValue(typeT)}

\* ------------------------------------------------------------- Go slices
\* A nil pointer to a ResponseErrorFieldVM.
NilField == [addr |-> NilPtr, Field |-> "", Message |-> ""]
\* The nil slice: the zero value of []*ResponseErrorFieldVM.
NilSlice == [isNil |-> TRUE, elems |-> <<>>, capacity |-> 0]
\* make([]*ResponseErrorFieldVM, n, c): n nil pointers, capacity c, never nil.
make(n, c) == [isNil |-> FALSE, elems |-> [i \in 1..n |-> NilField], capacity |-> c]
len(s) == Len(s.elems)
cap(s) == s.capacity
\* copy(dst, src): the first min(len(dst), len(src)) elements of src into dst.
copy(dst, src) ==
    [dst EXCEPT !.elems =
        [i \in 1..len(dst) |-> IF i <= len(src) THEN src.elems[i] ELSE dst.elems[i]]]
\* append(s, xs...): in place while the capacity suffices, else into a new
\* array (whose capacity, at least the new length, the package never reads).
append(s, xs) ==
    IF Len(xs) = 0 THEN s
    ELSE [isNil |-> FALSE,
          elems |-> s.elems \o xs,
          capacity |-> IF len(s) + Len(xs) <= cap(s) THEN cap(s) ELSE len(s) + Len(xs)]

\* ------------------------------------------------------------ allocation
DetailAddrs == 1..(2 * Cardinality(Flows) + 1)
FieldAddrs == 1..(2 * Cardinality(Flows) * MaxLen + MaxArgs)

\* the addresses of the field entries some allocated ResponseErrorVM references
LiveFieldAddrs(h) ==
    UNION { { h[a].ErrorFields.elems[i].addr : i \in 1..len(h[a].ErrorFields) } :
              a \in DOMAIN h } \ {NilPtr}

Min(S) == CHOOSE x \in S : \A y \in S : x <= y

\* the n lowest addresses of pool that are not in used, lowest first
RECURSIVE FreshAddrs(_, _, _)
FreshAddrs(pool, used, n) ==
    IF n = 0 THEN <<>>
    ELSE LET a == Min(pool \ used)
         IN  <<a>> \o FreshAddrs(pool, used \cup {a}, n - 1)

\* --------------------------------------------------- ResponseErrorFieldVM
NewResponseErrorFieldVM(field, message, addr) ==
    [addr |-> addr, Field |-> field, Message |-> message]

\* -------------------------------------------------------- package gocerr
\* gocerr.Parse(err): the gocerr.Error an error is, and whether it is one.
\* A gocerr.Error value is one and a plain error is none; whether an error
\* that wraps a gocerr.Error counts is the library's decision (parseUnwraps).
Parse(err) ==
    IF err.kind = "custom" \/ (err.kind = "wrapped" /\ parseUnwraps)
    THEN [customError |-> [err EXCEPT !.kind = "custom", !.text = err.Message],
          ok |-> TRUE]
    ELSE [customError |-> NilErr, ok |-> FALSE]

\* gocerr.GetErrorFields(customErr): the error's field list.
GetErrorFields(customErr) == customErr.ErrorFields

\* (mutant) an error whose text is the message of a gocerr.Error is taken for
\* that gocerr.Error
AssertCustomError_ByText(err) ==
    IF err.kind = "custom"
    THEN [customError |-> err, isCustomError |-> TRUE]
    ELSE IF \E c \in CustomErrs : c.Message = err.text
    THEN [customError |->
              CHOOSE c \in CustomErrs :
                  c.Message = err.text /\ c.Code = 400 /\ c.ErrorFields = <<>>,
          isCustomError |-> TRUE]
    ELSE [customError |-> NilErr, isCustomError |-> FALSE]

\* err.(gocerr.Error): the type assertion on the error's own dynamic type.
AssertCustomError(err) ==
    IF err.kind = "custom"
    THEN [customError |-> err, isCustomError |-> TRUE]
    ELSE [customError |-> NilErr, isCustomError |-> FALSE]

\* err.Error()
ErrorText(err) == err.text

\* -------------------------------------------------------- ResponseErrorVM
\* (mutant) the constructor leaves ErrorFields at its zero value, the nil slice
NewResponseErrorVM_NilFields == [Message |-> "", ErrorFields |-> NilSlice]

\* The value NewResponseErrorVM() points to.
NewResponseErrorVM == [Message |-> "", ErrorFields |-> make(0, 0)]

\* (mutant) setting the message starts the entries anew
SetMessage_ResetsFields(d, message) ==
    [d EXCEPT !.Message = message, !.ErrorFields = make(0, 0)]

SetMessage(d, message) == [d EXCEPT !.Message = message]

\* (mutant) the grown slice is allocated but the old entries are not copied
AddErrorFields_NoCopy(d, errorFields) ==
    LET currentLen == len(d.ErrorFields)
        newLen == currentLen + Len(errorFields)
        grown == IF cap(d.ErrorFields) < newLen
                 THEN make(currentLen, newLen)
                 ELSE d.ErrorFields
    IN  [d EXCEPT !.ErrorFields = append(grown, errorFields)]

AddErrorFields(d, errorFields) ==
    LET currentLen == len(d.ErrorFields)
        newLen == currentLen + Len(errorFields)
        grown == IF cap(d.ErrorFields) < newLen
                 THEN copy(make(currentLen, newLen), d.ErrorFields)
                 ELSE d.ErrorFields
    IN  [d EXCEPT !.ErrorFields = append(grown, errorFields)]

\* (mutant) the two strings of an entry are passed in the wrong order
mapFromCustomError_SwapsFieldAndMessage(d, customErr, used) ==
    LET errorFields == GetErrorFields(customErr)
        n == Len(errorFields)
        at == FreshAddrs(FieldAddrs, used, n)
        responseFields ==
            append(make(0, n),
                   [i \in 1..n |->
                       NewResponseErrorFieldVM(errorFields[i].Message,
                                               errorFields[i].Field, at[i])])
    IN  IF n > 0
        THEN [d EXCEPT !.Message = customErr.Message, !.ErrorFields = responseFields]
        ELSE [d EXCEPT !.Message = customErr.Message]

\* (mutant) the new entries are appended to the entries already held
mapFromCustomError_Appends(d, customErr, used) ==
    LET errorFields == GetErrorFields(customErr)
        n == Len(errorFields)
        at == FreshAddrs(FieldAddrs, used, n)
        responseFields ==
            append(d.ErrorFields,
                   [i \in 1..n |->
                       NewResponseErrorFieldVM(errorFields[i].Field,
                                               errorFields[i].Message, at[i])])
    IN  IF n > 0
        THEN [d EXCEPT !.Message = customErr.Message, !.ErrorFields = responseFields]
        ELSE [d EXCEPT !.Message = customErr.Message]

\* used: the field-entry addresses in use when the call is made
mapFromCustomError(d, customErr, used) ==
    LET errorFields == GetErrorFields(customErr)
        n == Len(errorFields)
        at == FreshAddrs(FieldAddrs, used, n)
        responseFields ==
            append(make(0, n),
                   [i \in 1..n |->
                       NewResponseErrorFieldVM(errorFields[i].Field,
                                               errorFields[i].Message, at[i])])
    IN  IF n > 0
        THEN [d EXCEPT !.Message = customErr.Message, !.ErrorFields = responseFields]
        ELSE [d EXCEPT !.Message = customErr.Message]

\* (mutant) no early return for nil: the nil error is taken for a plain error
ParseError_NoNilCheck(d, err, used) ==
    IF Parse(err).ok THEN mapFromCustomError(d, Parse(err).customError, used)
    ELSE SetMessage(d, ErrorText(err))

\* (mutant) a plain error also resets the field entries
ParseError_GenericResetsFields(d, err, used) ==
    IF err.kind = "nil" THEN d
    ELSE IF Parse(err).ok THEN mapFromCustomError(d, Parse(err).customError, used)
    ELSE [SetMessage(d, ErrorText(err)) EXCEPT !.ErrorFields = make(0, 0)]

ParseError(d, err, used) ==
    IF err.kind = "nil" THEN d
    ELSE IF Parse(err).ok THEN mapFromCustomError(d, Parse(err).customError, used)
    ELSE SetMessage(d, ErrorText(err))

\* ------------------------- ResponseErrorVM, the earlier implementation
\* The ResponseErrorVM of response_error.go.
EarlierNewResponseErrorVM == [Message |-> "", ErrorFields |-> NilSlice]

EarlierSetMessage(d, message) == [d EXCEPT !.Message = message]

EarlierAddErrorFields(d, errorFields) ==
    [d EXCEPT !.ErrorFields = append(d.ErrorFields, errorFields)]

\* the loop of mapFromCustomError from index i on; at: the addresses of the
\* entries it constructs
RECURSIVE EarlierMapLoop(_, _, _, _)
EarlierMapLoop(d, errorFields, at, i) ==
    IF i > Len(errorFields) THEN d
    ELSE EarlierMapLoop(
             EarlierAddErrorFields(d,
                 <<NewResponseErrorFieldVM(errorFields[i].Field,
                                           errorFields[i].Message, at[i])>>),
             errorFields, at, i + 1)

EarlierMapFromCustomError(d, err, used) ==
    LET d1 == EarlierSetMessage(d, err.Message)
        at == FreshAddrs(FieldAddrs, used, Len(err.ErrorFields))
    IN  IF Len(err.ErrorFields) > 0
        THEN EarlierMapLoop(d1, err.ErrorFields, at, 1)
        ELSE d1

EarlierParseError(d, err, used) ==
    IF err.kind = "nil" THEN d
    ELSE IF AssertCustomError(err).isCustomError
    THEN EarlierMapFromCustomError(d, AssertCustomError(err).customError, used)
    ELSE EarlierSetMessage(d, ErrorText(err))

\* ------------------------------------------------------------- ResponseVM
\* (mutant) a new envelope starts as a success
NewResponseVM_StatusOK == [Code |-> 200, Error |-> NilPtr, Data |-> ZeroData]

\* The value NewResponseVM[T]() points to.
NewResponseVM == [Code |-> 0, Error |-> NilPtr, Data |-> ZeroData]

\* (mutant) an integer that is no HTTP status code is not taken
SetCode_Validates(v, code) == IF code \in 100..599 THEN [v EXCEPT !.Code = code] ELSE v

SetCode(v, code) == [v EXCEPT !.Code = code]

\* (mutant) setting a payload also marks the response as a success
SetData_SetsStatusOK(v, data) == [v EXCEPT !.Data = data, !.Code = 200]

SetData(v, data) == [v EXCEPT !.Data = data]

\* (mutant) a nil argument is ignored, as SetErrorFromError ignores a nil error
SetError_IgnoresNil(v, err) == IF err = NilPtr THEN v ELSE [v EXCEPT !.Error = err]

SetError(v, err) == [v EXCEPT !.Error = err]

\* (mutant) the default code is set before the nil check
SetErrorFromError_DefaultBeforeNilCheck(v, err, h) ==
    LET v1 == SetCode(v, StatusInternalServerError)
        as == AssertCustomError(err)
        v2 == IF as.isCustomError THEN SetCode(v1, as.customError.Code) ELSE v1
        a == Min(DetailAddrs \ DOMAIN h)
        d == ParseError(NewResponseErrorVM, err, LiveFieldAddrs(h))
    IN  IF err.kind = "nil" THEN [vm |-> v1, heap |-> h, isCustomError |-> FALSE]
        ELSE [vm |-> [v2 EXCEPT !.Error = a],
              heap |-> [x \in DOMAIN h \cup {a} |-> IF x = a THEN d ELSE h[x]],
              isCustomError |-> as.isCustomError]

\* (mutant) the error is parsed into the ResponseErrorVM already attached, when
\* there is one, instead of into a new one
SetErrorFromError_ReusesDetail(v, err, h) ==
    IF err.kind = "nil" THEN [vm |-> v, heap |-> h, isCustomError |-> FALSE]
    ELSE LET v1 == SetCode(v, StatusInternalServerError)
             as == AssertCustomError(err)
             v2 == IF as.isCustomError THEN SetCode(v1, as.customError.Code) ELSE v1
             a == IF v.Error # NilPtr THEN v.Error ELSE Min(DetailAddrs \ DOMAIN h)
             d == ParseError(IF v.Error # NilPtr THEN h[v.Error] ELSE NewResponseErrorVM,
                             err, LiveFieldAddrs(h))
         IN  [vm |-> [v2 EXCEPT !.Error = a],
              heap |-> [x \in DOMAIN h \cup {a} |-> IF x = a THEN d ELSE h[x]],
              isCustomError |-> as.isCustomError]

\* (mutant) an envelope that takes an error drops its payload
SetErrorFromError_ClearsData(v, err, h) ==
    IF err.kind = "nil" THEN [vm |-> v, heap |-> h, isCustomError |-> FALSE]
    ELSE LET v1 == SetCode(v, StatusInternalServerError)
             as == AssertCustomError(err)
             v2 == IF as.isCustomError THEN SetCode(v1, as.customError.Code) ELSE v1
             a == Min(DetailAddrs \ DOMAIN h)
             d == ParseError(NewResponseErrorVM, err, LiveFieldAddrs(h))
         IN  [vm |-> [v2 EXCEPT !.Error = a, !.Data = ZeroData],
              heap |-> [x \in DOMAIN h \cup {a} |-> IF x = a THEN d ELSE h[x]],
              isCustomError |-> as.isCustomError]

\* (mutant) the error is parsed into one ResponseErrorVM that the package keeps
\* for all envelopes
SetErrorFromError_SharesDetail(v, err, h) ==
    IF err.kind = "nil" THEN [vm |-> v, heap |-> h, isCustomError |-> FALSE]
    ELSE LET v1 == SetCode(v, StatusInternalServerError)
             as == AssertCustomError(err)
             v2 == IF as.isCustomError THEN SetCode(v1, as.customError.Code) ELSE v1
             a == Min(DetailAddrs)
             d == ParseError(NewResponseErrorVM, err, LiveFieldAddrs(h))
         IN  [vm |-> [v2 EXCEPT !.Error = a],
              heap |-> [x \in DOMAIN h \cup {a} |-> IF x = a THEN d ELSE h[x]],
              isCustomError |-> as.isCustomError]

\* SetErrorFromError on the envelope v with the heap h: the envelope and the
\* heap after the call, and the call's local isCustomError.
SetErrorFromError(v, err, h) ==
    IF err.kind = "nil" THEN [vm |-> v, heap |-> h, isCustomError |-> FALSE]
    ELSE LET v1 == SetCode(v, StatusInternalServerError)
             as == AssertCustomError(err)
             v2 == IF as.isCustomError THEN SetCode(v1, as.customError.Code) ELSE v1
             a == Min(DetailAddrs \ DOMAIN h)
             d == ParseError(NewResponseErrorVM, err, LiveFieldAddrs(h))
         IN  [vm |-> [v2 EXCEPT !.Error = a],
              heap |-> [x \in DOMAIN h \cup {a} |-> IF x = a THEN d ELSE h[x]],
              isCustomError |-> as.isCustomError]

\* ---------------------------------------------------------- encoding/json
\* json.Marshal of an envelope, as far as the struct tags decide it: the keys
\* of the object written.  A field tagged omitempty is left out when its value
\* is empty: a nil pointer, a slice or string of length 0; a struct value is
\* never empty.
IsEmptyValue(data, t) ==
    CASE t = "pointer" -> data = "nil"
      [] t = "string" -> data = ""
      [] t = "struct" -> FALSE

\* (mutant) error_fields is left out for the nil slice only
ErrorKeys_OmitsNilOnly(d) ==
    {"message"} \cup (IF d.ErrorFields.isNil THEN {} ELSE {"error_fields"})

\* the keys of the object written for a ResponseErrorVM
ErrorKeys(d) ==
    {"message"} \cup (IF len(d.ErrorFields) = 0 THEN {} ELSE {"error_fields"})

\* the keys of the object written for a ResponseVM[T], T of kind t
EnvelopeKeys(v, t) ==
    {"code"}
        \cup (IF v.Error = NilPtr THEN {} ELSE {"error"})
        \cup (IF IsEmptyValue(v.Data, t) THEN {} ELSE {"data"})

\* ------------------------------------------------------- returned values
\* What a method hands back: the pointer its `return` statement names, or
\* Panicked when the call does not return.  self is the receiver.
Panicked == -1

\* err.Error() on the nil interface value is a nil dereference
ErrorCallPanics(err) == err.kind = "nil"

\* (mutant) the setter works on a copy of the envelope and returns the copy
ReturnOfSetCode_Copy(self) == self + Cardinality(Flows)

ReturnOfSetCode(self) == self

ReturnOfSetData(self) == self

ReturnOfSetError(self) == self

ReturnOfSetMessage(self) == self

ReturnOfAddErrorFields(self) == self

ReturnOfMapFromCustomError(self) == self

\* (mutant) no early return for nil: err.Error() is called on the nil error
ReturnOfParseError_NoNilCheck(self, err) ==
    IF Parse(err).ok THEN ReturnOfMapFromCustomError(self)
    ELSE IF ErrorCallPanics(err) THEN Panicked
    ELSE ReturnOfSetMessage(self)

ReturnOfParseError(self, err) ==
    IF err.kind = "nil" THEN self
    ELSE IF Parse(err).ok THEN ReturnOfMapFromCustomError(self)
    ELSE IF ErrorCallPanics(err) THEN Panicked
    ELSE ReturnOfSetMessage(self)

\* a: the address of the ResponseErrorVM the call constructs
ReturnOfSetErrorFromError(self, err, a) ==
    IF err.kind = "nil" THEN self
    ELSE LET v1 == ReturnOfSetCode(self)
             v2 == IF AssertCustomError(err).isCustomError
                   THEN ReturnOfSetCode(v1) ELSE v1
         IN  IF ReturnOfParseError(a, err) = Panicked THEN Panicked ELSE v2

\* ---------------------------------------------------------------- calls
\* The record of a call: the operation, its error argument, the number of
\* its variadic arguments, and the classification decisions it made.
Called(op, err, n, isCustomError, ok) ==
    [op |-> op, err |-> err, n |-> n, isCustomError |-> isCustomError, ok |-> ok]

\* The call record c completed with the pointers of the call: the receiver,
\* the pointer or integer argument, the variadic arguments, the returned value.
Returned(c, self, arg, args, ret) ==
    [op |-> c.op, err |-> c.err, n |-> c.n, isCustomError |-> c.isCustomError,
     ok |-> c.ok, self |-> self, arg |-> arg, args |-> args, ret |-> ret]

\* The heap h without the objects that neither an envelope nor a flow references.
Collect(h, vmN, curN) ==
    LET live == ({ vmN[f].Error : f \in Flows } \cup { curN[f] : f \in Flows }) \ {NilPtr}
    IN  [a \in DOMAIN h \cap live |-> h[a]]

\* The envelope of flow f is the object at address f.
InitOf(types) ==
    /\ typeT \in types
    /\ vm = [f \in Flows |-> NewResponseVM]
    /\ cur = [f \in Flows |-> NilPtr]
    /\ heap = [a \in {} |-> NewResponseErrorVM]
    /\ call = [f \in Flows |->
                 Returned(Called("NewResponseVM", NilErr, 0, FALSE, FALSE),
                          NilPtr, 0, <<>>, f)]
    /\ parseUnwraps \in BOOLEAN

\* envelopes of a pointer type, as in the package's tests and README
Init == InitOf({"pointer"})

CallNewResponseVM(f) ==
    /\ vm' = [vm EXCEPT ![f] = NewResponseVM]
    /\ heap' = Collect(heap, vm', cur)
    /\ call' = [call EXCEPT ![f] =
                  Returned(Called("NewResponseVM", NilErr, 0, FALSE, FALSE),
                           NilPtr, 0, <<>>, f)]
    /\ UNCHANGED <<cur, parseUnwraps, typeT>>

CallSetCode(f, code) ==
    /\ vm' = [vm EXCEPT ![f] = SetCode(vm[f], code)]
    /\ call' = [call EXCEPT ![f] =
                  Returned(Called("SetCode", NilErr, 0, FALSE, FALSE),
                           f, code, <<>>, ReturnOfSetCode(f))]
    /\ UNCHANGED <<cur, heap, parseUnwraps, typeT>>

CallSetData(f, data) ==
    /\ vm' = [vm EXCEPT ![f] = SetData(vm[f], data)]
    /\ call' = [call EXCEPT ![f] =
                  Returned(Called("SetData", NilErr, 0, FALSE, FALSE),
                           f, 0, <<>>, ReturnOfSetData(f))]
    /\ UNCHANGED <<cur, heap, parseUnwraps, typeT>>

\* SetError(nil)
CallSetErrorNil(f) ==
    /\ vm' = [vm EXCEPT ![f] = SetError(vm[f], NilPtr)]
    /\ heap' = Collect(heap, vm', cur)
    /\ call' = [call EXCEPT ![f] =
                  Returned(Called("SetError", NilErr, 0, FALSE, FALSE),
                           f, NilPtr, <<>>, ReturnOfSetError(f))]
    /\ UNCHANGED <<cur, parseUnwraps, typeT>>

\* SetError(NewResponseErrorVM().SetMessage(message).AddErrorFields(...)), the
\* entries newly constructed from `pairs`
CallSetError(f, message, pairs) ==
    LET at == FreshAddrs(FieldAddrs, LiveFieldAddrs(heap), Len(pairs))
        errorFields == [i \in 1..Len(pairs) |->
                          NewResponseErrorFieldVM(pairs[i].Field, pairs[i].Message, at[i])]
        d == AddErrorFields(SetMessage(NewResponseErrorVM, message), errorFields)
        a == Min(DetailAddrs \ DOMAIN heap)
    IN  /\ vm' = [vm EXCEPT ![f] = SetError(vm[f], a)]
        /\ heap' = Collect([x \in DOMAIN heap \cup {a} |-> IF x = a THEN d ELSE heap[x]],
                           vm', cur)
        /\ call' = [call EXCEPT ![f] =
                      Returned(Called("SetError", NilErr, Len(pairs), FALSE, FALSE),
                               f, a, <<>>, ReturnOfSetError(f))]
        /\ UNCHANGED <<cur, parseUnwraps, typeT>>

\* SetError(d), d the ResponseErrorVM the flow holds
CallSetErrorHeld(f) ==
    /\ cur[f] # NilPtr
    /\ vm' = [vm EXCEPT ![f] = SetError(vm[f], cur[f])]
    /\ heap' = Collect(heap, vm', cur)
    /\ call' = [call EXCEPT ![f] =
                  Returned(Called("SetError", NilErr, 0, FALSE, FALSE),
                           f, cur[f], <<>>, ReturnOfSetError(f))]
    /\ UNCHANGED <<cur, parseUnwraps, typeT>>

CallSetErrorFromError(f, err) ==
    LET r == SetErrorFromError(vm[f], err, heap)
    IN  /\ vm' = [vm EXCEPT ![f] = r.vm]
        /\ heap' = Collect(r.heap, vm', cur)
        /\ call' = [call EXCEPT ![f] =
                      Returned(Called("SetErrorFromError", err, 0, r.isCustomError,
                                      Parse(err).ok),
                               f, 0, <<>>,
                               ReturnOfSetErrorFromError(f, err, r.vm.Error))]
        /\ UNCHANGED <<cur, parseUnwraps, typeT>>

CallNewResponseErrorVM(f) ==
    LET a == Min(DetailAddrs \ DOMAIN heap)
    IN  /\ cur' = [cur EXCEPT ![f] = a]
        /\ heap' = Collect([x \in DOMAIN heap \cup {a} |->
                              IF x = a THEN NewResponseErrorVM ELSE heap[x]], vm, cur')
        /\ call' = [call EXCEPT ![f] =
                      Returned(Called("NewResponseErrorVM", NilErr, 0, FALSE, FALSE),
                               NilPtr, 0, <<>>, a)]
        /\ UNCHANGED <<vm, parseUnwraps, typeT>>

CallSetMessage(f, message) ==
    /\ cur[f] # NilPtr
    /\ heap' = [heap EXCEPT ![cur[f]] = SetMessage(@, message)]
    /\ call' = [call EXCEPT ![f] =
                  Returned(Called("SetMessage", NilErr, 0, FALSE, FALSE),
                           cur[f], 0, <<>>, ReturnOfSetMessage(cur[f]))]
    /\ UNCHANGED <<vm, cur, parseUnwraps, typeT>>

\* AddErrorFields with one newly constructed entry per pair of `pairs`
CallAddErrorFields(f, pairs) ==
    LET at == FreshAddrs(FieldAddrs, LiveFieldAddrs(heap), Len(pairs))
        errorFields == [i \in 1..Len(pairs) |->
                          NewResponseErrorFieldVM(pairs[i].Field, pairs[i].Message, at[i])]
    IN  /\ cur[f] # NilPtr
        /\ len(heap[cur[f]].ErrorFields) + Len(pairs) <= MaxLen
        /\ heap' = [heap EXCEPT ![cur[f]] = AddErrorFields(@, errorFields)]
        /\ call' = [call EXCEPT ![f] =
                      Returned(Called("AddErrorFields", NilErr, Len(pairs), FALSE, FALSE),
                               cur[f], 0, errorFields, ReturnOfAddErrorFields(cur[f]))]
        /\ UNCHANGED <<vm, cur, parseUnwraps, typeT>>

CallParseError(f, err) ==
    /\ cur[f] # NilPtr
    /\ heap' = [heap EXCEPT ![cur[f]] = ParseError(@, err, LiveFieldAddrs(heap))]
    /\ call' = [call EXCEPT ![f] =
                  Returned(Called("ParseError", err, 0, FALSE, Parse(err).ok),
                           cur[f], 0, <<>>, ReturnOfParseError(cur[f], err))]
    /\ UNCHANGED <<vm, cur, parseUnwraps, typeT>>

\* One flow building one response envelope.
Next ==
    \/ CallNewResponseVM(1)
    \/ \E code \in CodeArgs : CallSetCode(1, code)
    \/ \E data \in DataArgs : CallSetData(1, data)
    \/ CallSetErrorNil(1)
    \/ \E message \in Texts \cup {""}, pairs \in SeqUpTo(ErrorFieldPairs, 1) :
          CallSetError(1, message, pairs)
    \/ \E err \in Errs : CallSetErrorFromError(1, err)

Spec == Init /\ [][Next]_vars

\* One flow building one error detail.
DetailNext ==
    \/ CallNewResponseErrorVM(1)
    \/ \E message \in Texts \cup {""} : CallSetMessage(1, message)
    \/ \E pairs \in SeqUpTo(ErrorFieldPairs, MaxArgs) : CallAddErrorFields(1, pairs)
    \/ \E err \in Errs : CallParseError(1, err)

DetailSpec == Init /\ [][DetailNext]_vars

\* Two flows, each building its own response envelope.
PairErrs ==
    { e \in Errs :
        /\ e.kind # "nil"
        /\ e.ErrorFields \in {<<>>, <<EmailRequired, PasswordTooShort>>}
        /\ e.kind = "std" => e.text = "boom"
        /\ e.kind = "custom" => (e.Code = 400 <=> e.ErrorFields = <<>>) }

PairNext ==
    \E f \in Flows :
        \/ \E code \in CodeArgs : CallSetCode(f, code)
        \/ \E pairs \in SeqUpTo(ErrorFieldPairs, 1) : CallSetError(f, "boom", pairs)
        \/ \E err \in PairErrs : CallSetErrorFromError(f, err)

PairSpec == Init /\ [][PairNext]_vars

\* One flow building one response envelope, of any payload type.
TypedInit == InitOf(PayloadTypes)

TypedSpec == TypedInit /\ [][Next]_vars

\* One flow building an envelope and an error detail and attaching the one
\* to the other; entries are added to a detail that has none yet.
FlowErrs ==
    { e \in Errs :
        /\ e.kind \in {"nil", "custom", "std"}
        /\ e.ErrorFields = <<>>
        /\ e.kind = "std" => e.text = "boom"
        /\ e.kind = "custom" => e.Code = 422 }

FlowNext ==
    \/ CallNewResponseVM(1)
    \/ \E code \in CodeArgs : CallSetCode(1, code)
    \/ CallSetData(1, NonZeroValue(typeT))
    \/ CallSetErrorNil(1)
    \/ CallSetErrorHeld(1)
    \/ \E err \in FlowErrs : CallSetErrorFromError(1, err)
    \/ CallNewResponseErrorVM(1)
    \/ CallSetMessage(1, "boom")
    \/ \E pairs \in SeqUpTo({EmailRequired}, 1) :
          /\ cur[1] # NilPtr
          /\ len(heap[cur[1]].ErrorFields) = 0
          /\ CallAddErrorFields(1, pairs)
    \/ \E err \in FlowErrs : CallParseError(1, err)

FlowSpec == Init /\ [][FlowNext]_vars

\* One flow setting the code of one envelope, with integers in and out of
\* the range of HTTP status codes.
AnyCodes == {-1, 0, 99, 100, 200, 599, 600}
AnyCodeErrs ==
    {NilErr}
        \cup { [kind |-> "custom", Code |-> c, Message |-> "message",
                ErrorFields |-> <<>>, text |-> "message"] : c \in {0, 400, 999} }
        \cup { e \in StdErrs : e.text = "boom" }

CodeNext ==
    \/ CallNewResponseVM(1)
    \/ \E code \in AnyCodes : CallSetCode(1, code)
    \/ \E data \in DataArgs : CallSetData(1, data)
    \/ \E err \in AnyCodeErrs : CallSetErrorFromError(1, err)

CodeSpec == Init /\ [][CodeNext]_vars

\* One flow making the same calls on a ResponseErrorVM of the later
\* implementation, held in cur[1], and on one of the earlier implementation,
\* held in cur[2].
EquivErrs ==
    FlowErrs \cup { e \in CustomErrs : e.Code = 400 /\ e.ErrorFields = <<EmailRequired>> }

CallBothNewResponseErrorVM ==
    LET a == Min(DetailAddrs \ DOMAIN heap)
        b == Min(DetailAddrs \ (DOMAIN heap \cup {a}))
        c == Called("NewResponseErrorVM", NilErr, 0, FALSE, FALSE)
    IN  /\ cur' = [cur EXCEPT ![1] = a, ![2] = b]
        /\ heap' = Collect([x \in DOMAIN heap \cup {a, b} |->
                              IF x = a THEN NewResponseErrorVM
                              ELSE IF x = b THEN EarlierNewResponseErrorVM
                              ELSE heap[x]], vm, cur')
        /\ call' = [call EXCEPT ![1] = Returned(c, NilPtr, 0, <<>>, a),
                                ![2] = Returned(c, NilPtr, 0, <<>>, b)]
        /\ UNCHANGED <<vm, parseUnwraps, typeT>>

CallBothSetMessage(message) ==
    LET c == Called("SetMessage", NilErr, 0, FALSE, FALSE)
    IN  /\ cur[1] # NilPtr
        /\ heap' = [heap EXCEPT ![cur[1]] = SetMessage(@, message),
                                ![cur[2]] = EarlierSetMessage(@, message)]
        /\ call' = [call EXCEPT ![1] = Returned(c, cur[1], 0, <<>>, cur[1]),
                                ![2] = Returned(c, cur[2], 0, <<>>, cur[2])]
        /\ UNCHANGED <<vm, cur, parseUnwraps, typeT>>

\* the same newly constructed entries are handed to both
CallBothAddErrorFields(pairs) ==
    LET at == FreshAddrs(FieldAddrs, LiveFieldAddrs(heap), Len(pairs))
        errorFields == [i \in 1..Len(pairs) |->
                          NewResponseErrorFieldVM(pairs[i].Field, pairs[i].Message, at[i])]
        c == Called("AddErrorFields", NilErr, Len(pairs), FALSE, FALSE)
    IN  /\ cur[1] # NilPtr
        /\ len(heap[cur[1]].ErrorFields) + Len(pairs) <= MaxLen
        /\ len(heap[cur[2]].ErrorFields) + Len(pairs) <= MaxLen
        /\ heap' = [heap EXCEPT ![cur[1]] = AddErrorFields(@, errorFields),
                                ![cur[2]] = EarlierAddErrorFields(@, errorFields)]
        /\ call' = [call EXCEPT ![1] = Returned(c, cur[1], 0, errorFields, cur[1]),
                                ![2] = Returned(c, cur[2], 0, errorFields, cur[2])]
        /\ UNCHANGED <<vm, cur, parseUnwraps, typeT>>

CallBothParseError(err) ==
    LET later == ParseError(heap[cur[1]], err, LiveFieldAddrs(heap))
        taken == { later.ErrorFields.elems[i].addr : i \in 1..len(later.ErrorFields) }
        earlier == EarlierParseError(heap[cur[2]], err, LiveFieldAddrs(heap) \cup taken)
    IN  /\ cur[1] # NilPtr
        /\ len(heap[cur[2]].ErrorFields) + Len(err.ErrorFields) <= MaxLen
        /\ heap' = [heap EXCEPT ![cur[1]] = later, ![cur[2]] = earlier]
        /\ call' = [call EXCEPT
                      ![1] = Returned(Called("ParseError", err, 0, FALSE, Parse(err).ok),
                                      cur[1], 0, <<>>, cur[1]),
                      ![2] = Returned(Called("ParseError", err, 0,
                                             AssertCustomError(err).isCustomError, FALSE),
                                      cur[2], 0, <<>>, cur[2])]
        /\ UNCHANGED <<vm, cur, parseUnwraps, typeT>>

EquivNext ==
    \/ CallBothNewResponseErrorVM
    \/ \E message \in Texts : CallBothSetMessage(message)
    \/ \E pairs \in SeqUpTo(ErrorFieldPairs, 1) : CallBothAddErrorFields(pairs)
    \/ \E err \in EquivErrs : CallBothParseError(err)

EquivSpec == Init /\ [][EquivNext]_vars

\* ================================================================ claims
\* what a reader of the envelope of flow f sees
ErrorOf(f) == heap[vm[f].Error]
\* the (Field, Message) pairs of a slice's entries, in order
PairsOf(s) ==
    [i \in 1..len(s) |-> [Field |-> s.elems[i].Field, Message |-> s.elems[i].Message]]
\* the addresses of a slice's entries
AddrsOf(s) == { s.elems[i].addr : i \in 1..len(s) }

\* C1: after SetErrorFromError with a gocerr.Error of code C, message M and
\* field list F, the envelope has Code = C, Error.Message = M, and
\* Error.ErrorFields has F's length with the i-th entry's Field and Message
\* equal to F's i-th pair.
C1_ClassifiedErrorMapped ==
    (call[1].op = "SetErrorFromError" /\ call[1].err.kind = "custom") =>
        /\ vm[1].Code = call[1].err.Code
        /\ vm[1].Error # NilPtr
        /\ ErrorOf(1).Message = call[1].err.Message
        /\ len(ErrorOf(1).ErrorFields) = Len(call[1].err.ErrorFields)
        /\ \A i \in 1..Len(call[1].err.ErrorFields) :
              /\ ErrorOf(1).ErrorFields.elems[i].addr # NilPtr
              /\ ErrorOf(1).ErrorFields.elems[i].Field = call[1].err.ErrorFields[i].Field
              /\ ErrorOf(1).ErrorFields.elems[i].Message = call[1].err.ErrorFields[i].Message

\* a gocerr.Error with two different fields has been mapped into the envelope
C1_Witness ==
    /\ call[1].op = "SetErrorFromError"
    /\ call[1].err.kind = "custom"
    /\ Len(call[1].err.ErrorFields) = 2
    /\ call[1].err.ErrorFields[1] # call[1].err.ErrorFields[2]
    /\ vm[1].Code = 422
    /\ vm[1].Data # ZeroData

\* C2: after SetErrorFromError with a plain error of text S the envelope has
\* Code = 500, Error.Message = S and no field entries.
C2_GenericErrorMapped ==
    (call[1].op = "SetErrorFromError" /\ call[1].err.kind = "std") =>
        /\ vm[1].Code = StatusInternalServerError
        /\ vm[1].Error # NilPtr
        /\ ErrorOf(1).Message = call[1].err.text
        /\ len(ErrorOf(1).ErrorFields) = 0

C2_Witness ==
    /\ call[1].op = "SetErrorFromError"
    /\ call[1].err.kind = "std"
    /\ call[1].err.text = "boom"
    /\ vm[1].Code = 500

\* C3: SetErrorFromError(nil) changes nothing: the envelope's Code, Data and
\* Error, and the attached ResponseErrorVM, are as before the call.
C3_NilErrorIsNoOp ==
    [][(call'[1].op = "SetErrorFromError" /\ call'[1].err.kind = "nil") =>
          /\ vm' = vm
          /\ heap' = heap]_vars

\* SetErrorFromError(nil) was called on an envelope holding an error and a code
\* other than 500
C3_Witness ==
    /\ call[1].op = "SetErrorFromError"
    /\ call[1].err.kind = "nil"
    /\ vm[1].Error # NilPtr
    /\ vm[1].Code = 200

\* C4: after SetErrorFromError with a gocerr.Error without fields, the
\* envelope's Error.ErrorFields is an empty slice and not the nil slice.
C4_EmptyFieldsNotNil ==
    (/\ call[1].op = "SetErrorFromError"
     /\ call[1].err.kind = "custom"
     /\ call[1].err.ErrorFields = <<>>) =>
        /\ vm[1].Error # NilPtr
        /\ ~ErrorOf(1).ErrorFields.isNil
        /\ len(ErrorOf(1).ErrorFields) = 0

C4_Witness ==
    /\ call[1].op = "SetErrorFromError"
    /\ call[1].err.kind = "custom"
    /\ call[1].err.ErrorFields = <<>>
    /\ vm[1].Code = 400

\* C5: ParseError with a gocerr.Error without fields, on a ResponseErrorVM that
\* holds one or more entries, leaves the field sequence empty.
C5_ZeroFieldsClearsStale ==
    [][(/\ call'[1].op = "ParseError"
        /\ call'[1].err.kind = "custom"
        /\ call'[1].err.ErrorFields = <<>>
        /\ len(heap[cur[1]].ErrorFields) >= 1) =>
          len(heap'[cur'[1]].ErrorFields) = 0]_vars

\* C6: ParseError with a gocerr.Error with one or more fields replaces the
\* field sequence: one non-nil entry per pair, in the error's order, each at
\* an address of its own that no entry had before the call.
C6_FieldsReplacedWholesale ==
    [][(/\ call'[1].op = "ParseError"
        /\ call'[1].err.kind = "custom"
        /\ Len(call'[1].err.ErrorFields) >= 1) =>
          LET after == heap'[cur'[1]].ErrorFields
          IN  /\ PairsOf(after) = call'[1].err.ErrorFields
              /\ NilPtr \notin AddrsOf(after)
              /\ Cardinality(AddrsOf(after)) = len(after)
              /\ AddrsOf(after) \cap LiveFieldAddrs(heap) = {}]_vars

\* ParseError with a two-field gocerr.Error was called while the lowest
\* addresses were taken by the entries the ResponseErrorVM held
C6_Witness ==
    /\ call[1].op = "ParseError"
    /\ call[1].err.kind = "custom"
    /\ call[1].err.ErrorFields = <<PasswordTooShort, EmailRequired>>
    /\ cur[1] # NilPtr
    /\ 1 \notin AddrsOf(heap[cur[1]].ErrorFields)

\* C9: ParseError(nil) leaves the message and the field sequence as they were.
C9_ParseNilIsNoOp ==
    [][(call'[1].op = "ParseError" /\ call'[1].err.kind = "nil") =>
          /\ cur' = cur
          /\ heap' = heap]_vars

\* ParseError(nil) was called on a ResponseErrorVM with a message and entries
C9_Witness ==
    /\ call[1].op = "ParseError"
    /\ call[1].err.kind = "nil"
    /\ cur[1] # NilPtr
    /\ heap[cur[1]].Message = "boom"
    /\ len(heap[cur[1]].ErrorFields) = 2

\* C7: for every non-nil error, also one that wraps a gocerr.Error, the code
\* selection of SetErrorFromError (its type assertion) and the extraction of
\* ParseError (gocerr.Parse) take the error for classified together or for
\* generic together.
C7_SameClassification ==
    (call[1].op = "SetErrorFromError" /\ call[1].err.kind # "nil") =>
        (call[1].isCustomError <=> call[1].ok)

\* C8: after SetErrorFromError with the same non-nil error, two envelopes show
\* the same Code, Error.Message and field entries, whatever they held before,
\* and each has a ResponseErrorVM and field entries of its own.
C8_FinalAuthority ==
    (/\ call[1].op = "SetErrorFromError"
     /\ call[2].op = "SetErrorFromError"
     /\ call[1].err = call[2].err
     /\ call[1].err.kind # "nil") =>
        /\ vm[1].Code = vm[2].Code
        /\ vm[1].Error # NilPtr
        /\ vm[2].Error # NilPtr
        /\ vm[1].Error # vm[2].Error
        /\ ErrorOf(1).Message = ErrorOf(2).Message
        /\ PairsOf(ErrorOf(1).ErrorFields) = PairsOf(ErrorOf(2).ErrorFields)
        /\ ErrorOf(1).ErrorFields.isNil = ErrorOf(2).ErrorFields.isNil
        /\ AddrsOf(ErrorOf(1).ErrorFields) \cap AddrsOf(ErrorOf(2).ErrorFields) = {}

\* both envelopes received the same plain error
C8_Witness ==
    /\ call[1].op = "SetErrorFromError"
    /\ call[2].op = "SetErrorFromError"
    /\ call[1].err = call[2].err
    /\ call[1].err.kind = "std"
    /\ vm[1].Code = 500

\* the entries handed to AddErrorFields in C10: a nil pointer and an entry
FieldArgs ==
    { NilField,
      NewResponseErrorFieldVM("email", "required", Cardinality(FieldAddrs)) }

\* C10: AddErrorFields(a) followed by AddErrorFields(b) leaves the field
\* sequence that AddErrorFields(a, b) leaves, for every ResponseErrorVM state
\* and all argument lists a and b.
C10_AddErrorFieldsAssociative ==
    cur[1] # NilPtr =>
        \A a \in SeqUpTo(FieldArgs, MaxArgs), b \in SeqUpTo(FieldArgs, MaxArgs) :
            LET chained == AddErrorFields(AddErrorFields(heap[cur[1]], a), b)
                once == AddErrorFields(heap[cur[1]], a \o b)
            IN  /\ chained.ErrorFields.elems = once.ErrorFields.elems
                /\ chained.ErrorFields.isNil = once.ErrorFields.isNil
                /\ chained.Message = once.Message

\* AddErrorFields was called with one entry on a ResponseErrorVM that held one
C10_Witness ==
    /\ call[1].op = "AddErrorFields"
    /\ call[1].n = 1
    /\ cur[1] # NilPtr
    /\ PairsOf(heap[cur[1]].ErrorFields) = <<EmailRequired, PasswordTooShort>>

\* C11: AddErrorFields(xs) on a ResponseErrorVM whose field sequence is F
\* leaves F followed by xs in argument order: every entry of F stays at its
\* index, the message is unchanged, and a call without arguments changes
\* nothing.
C11_AddErrorFieldsAppends ==
    [][call'[1].op = "AddErrorFields" =>
          LET before == heap[cur[1]]
              after == heap'[cur'[1]]
          IN  /\ cur' = cur
              /\ after.ErrorFields.elems = before.ErrorFields.elems \o call'[1].args
              /\ after.Message = before.Message
              /\ call'[1].args = <<>> => heap' = heap]_vars

\* AddErrorFields was called with one entry on a ResponseErrorVM that held a
\* message and another entry
C11_Witness ==
    /\ call[1].op = "AddErrorFields"
    /\ Len(call[1].args) = 1
    /\ cur[1] # NilPtr
    /\ heap[cur[1]].Message = "boom"
    /\ PairsOf(heap[cur[1]].ErrorFields) = <<PasswordTooShort, EmailRequired>>

\* C12: the field sequence of a ResponseErrorVM made by NewResponseErrorVM is
\* never the nil slice, whatever SetMessage, AddErrorFields (also without
\* arguments) and ParseError (nil, gocerr.Error, plain error) calls follow.
C12_FieldsNeverNil ==
    cur[1] # NilPtr => ~heap[cur[1]].ErrorFields.isNil

\* AddErrorFields was called without arguments on a ResponseErrorVM without
\* entries
C12_Witness ==
    /\ call[1].op = "AddErrorFields"
    /\ call[1].args = <<>>
    /\ cur[1] # NilPtr
    /\ len(heap[cur[1]].ErrorFields) = 0

\* C13 (as stated): the serialized envelope always has the key code; it has the
\* key error exactly when Error is not nil; the error object always has the key
\* message and has error_fields exactly when the field sequence is not empty;
\* and it has the key data exactly when Data is not the zero value of T.
C13_KeyPresence ==
    LET keys == EnvelopeKeys(vm[1], typeT)
    IN  /\ "code" \in keys
        /\ "error" \in keys <=> vm[1].Error # NilPtr
        /\ vm[1].Error # NilPtr =>
              /\ "message" \in ErrorKeys(ErrorOf(1))
              /\ "error_fields" \in ErrorKeys(ErrorOf(1)) <=>
                    len(ErrorOf(1).ErrorFields) > 0
        /\ "data" \in keys <=> vm[1].Data # ZeroData

\* C13 (amended): as stated for code, error, message and error_fields; the key
\* data is present exactly when Data is not the zero value of T for a pointer
\* or string T, and always for a struct T.  After SetErrorFromError with a
\* gocerr.Error without fields the error object has the key message only.
C13_KeyPresenceByKind ==
    LET keys == EnvelopeKeys(vm[1], typeT)
    IN  /\ "code" \in keys
        /\ "error" \in keys <=> vm[1].Error # NilPtr
        /\ vm[1].Error # NilPtr =>
              /\ "message" \in ErrorKeys(ErrorOf(1))
              /\ "error_fields" \in ErrorKeys(ErrorOf(1)) <=>
                    len(ErrorOf(1).ErrorFields) > 0
        /\ "data" \in keys <=> (typeT = "struct" \/ vm[1].Data # ZeroData)
        /\ (/\ call[1].op = "SetErrorFromError"
            /\ call[1].err.kind = "custom"
            /\ call[1].err.ErrorFields = <<>>) =>
              ErrorKeys(ErrorOf(1)) = {"message"}

\* an envelope of a struct type, its Data at the zero value, received a
\* gocerr.Error without fields: it serializes with code, error and data
C13_Witness ==
    /\ typeT = "struct"
    /\ call[1].op = "SetErrorFromError"
    /\ call[1].err.kind = "custom"
    /\ call[1].err.ErrorFields = <<>>
    /\ vm[1].Data = ZeroData
    /\ EnvelopeKeys(vm[1], typeT) = {"code", "error", "data"}

\* C14: SetError(d) is a plain assignment: afterwards Error is d (nil when d
\* is nil, whatever was attached before), Code and Data are as before, and
\* the message and entries of the attached ResponseErrorVM are as before.
C14_SetErrorAssigns ==
    [][call'[1].op = "SetError" =>
          /\ vm'[1].Error = call'[1].arg
          /\ vm'[1].Code = vm[1].Code
          /\ vm'[1].Data = vm[1].Data
          /\ cur' = cur
          /\ \A a \in DOMAIN heap \cap DOMAIN heap' : heap'[a] = heap[a]
          /\ call'[1].arg # NilPtr =>
                /\ call'[1].arg \in DOMAIN heap
                /\ call'[1].arg \in DOMAIN heap']_vars

\* SetError(nil) was called while the flow still held a ResponseErrorVM with a
\* message and an entry, and the envelope had a code and a payload
C14_Witness ==
    /\ call[1].op = "SetError"
    /\ call[1].arg = NilPtr
    /\ vm[1].Error = NilPtr
    /\ vm[1].Code = 422
    /\ vm[1].Data # ZeroData
    /\ cur[1] # NilPtr
    /\ heap[cur[1]].Message = "boom"
    /\ len(heap[cur[1]].ErrorFields) = 1

\* the operations that change the entity they are called on
EnvelopeSetters == {"SetCode", "SetData", "SetError", "SetErrorFromError"}
DetailSetters == {"SetMessage", "AddErrorFields", "ParseError"}

\* C15: every mutating operation returns the entity it was called on: SetCode,
\* SetData, SetError and SetErrorFromError (nil or not) return the receiving
\* envelope; SetMessage, AddErrorFields and ParseError return the receiving
\* ResponseErrorVM.
C15_ReturnsReceiver ==
    /\ call[1].op \in EnvelopeSetters =>
          /\ call[1].self = 1
          /\ call[1].ret = call[1].self
    /\ call[1].op \in DetailSetters =>
          /\ call[1].self = cur[1]
          /\ call[1].self # NilPtr
          /\ call[1].ret = call[1].self

\* SetErrorFromError with a gocerr.Error returned, after both of its SetCode
\* calls, the envelope it was called on
C15_Witness ==
    /\ call[1].op = "SetErrorFromError"
    /\ call[1].isCustomError
    /\ call[1].ret = 1
    /\ vm[1].Code = 422

\* C16: SetCode(x) then SetData(d) and SetData(d) then SetCode(x) leave the
\* same envelope, for every envelope state, code x and payload d.
C16_SetCodeSetDataCommute ==
    \A x \in CodeArgs \cup CustomCodes \cup {0}, d \in DataArgs :
        LET codeFirst == SetData(SetCode(vm[1], x), d)
            dataFirst == SetCode(SetData(vm[1], d), x)
        IN  /\ codeFirst = dataFirst
            /\ codeFirst = [Code |-> x, Error |-> vm[1].Error, Data |-> d]

\* SetCode and then SetData were called on an envelope that holds an error
C16_Witness ==
    /\ call[1].op = "SetData"
    /\ vm[1].Code = 200
    /\ vm[1].Data # ZeroData
    /\ vm[1].Error # NilPtr

\* C17: NewResponseVM returns an envelope with Code 0, no Error, and Data at
\* the zero value of the payload type, for every payload type.
C17_NewResponseVMIsZero ==
    call[1].op = "NewResponseVM" =>
        /\ vm[1].Code = 0
        /\ vm[1].Error = NilPtr
        /\ vm[1].Data = ZeroValue(typeT)
        /\ call[1].ret = 1

\* NewResponseVM was called for a struct payload type
C17_Witness ==
    /\ call[1].op = "NewResponseVM"
    /\ typeT = "struct"
    /\ vm[1].Data = "someStruct{}"
    /\ DOMAIN heap = {}

\* a ResponseErrorVM as the package leaves one: any message, a slice whose
\* length is within its capacity and which, when nil, has no elements
WellFormedDetail(d) ==
    /\ DOMAIN d = {"Message", "ErrorFields"}
    /\ d.Message \in Texts \cup {""}
    /\ len(d.ErrorFields) <= cap(d.ErrorFields)
    /\ d.ErrorFields.isNil => len(d.ErrorFields) = 0

\* C18: no operation fails: each constructor and each of SetCode, SetData,
\* SetError, SetErrorFromError, SetMessage, AddErrorFields and ParseError,
\* called on a constructed entity with any input (nil error, gocerr.Error
\* with or without fields, plain error, nil ResponseErrorVM, no variadic
\* arguments), returns, and returns a pointer to a well-formed entity.
C18_NoCallFails ==
    /\ call[1].ret # Panicked
    /\ call[1].ret # NilPtr
    /\ call[1].op \in EnvelopeSetters \cup {"NewResponseVM"} => call[1].ret = 1
    /\ call[1].op \in DetailSetters \cup {"NewResponseErrorVM"} =>
          call[1].ret \in DOMAIN heap
    /\ vm[1].Error \in DOMAIN heap \cup {NilPtr}
    /\ cur[1] \in DOMAIN heap \cup {NilPtr}
    /\ \A a \in DOMAIN heap : WellFormedDetail(heap[a])
    /\ \A err \in Errs :
          /\ ReturnOfSetErrorFromError(1, err, Min(DetailAddrs \ DOMAIN heap)) # Panicked
          /\ cur[1] # NilPtr => ReturnOfParseError(cur[1], err) # Panicked

\* ParseError(nil) was called on a ResponseErrorVM that is also attached to
\* the envelope, and returned it
C18_Witness ==
    /\ call[1].op = "ParseError"
    /\ call[1].err.kind = "nil"
    /\ call[1].ret = cur[1]
    /\ vm[1].Error = cur[1]

\* C19: ParseError with a plain error of text S, on a ResponseErrorVM in any
\* state, sets the message to S and leaves the field sequence as it was: the
\* same entries in the same order.
C19_GenericKeepsFields ==
    [][(call'[1].op = "ParseError" /\ call'[1].err.kind = "std") =>
          /\ cur' = cur
          /\ heap'[cur[1]].Message = call'[1].err.text
          /\ heap'[cur[1]].ErrorFields = heap[cur[1]].ErrorFields]_vars

\* ParseError with a plain error was called on a ResponseErrorVM holding two
\* entries
C19_Witness ==
    /\ call[1].op = "ParseError"
    /\ call[1].err.kind = "std"
    /\ call[1].err.text = "boom"
    /\ cur[1] # NilPtr
    /\ heap[cur[1]].Message = "boom"
    /\ PairsOf(heap[cur[1]].ErrorFields) = <<EmailRequired, EmailRequired>>

\* the integers that are HTTP status codes
ValidStatus == 100..599

\* C20 (as stated): once the code has been set, by SetCode with any integer or
\* by SetErrorFromError with any non-nil error, Code is in 100..599.
C20_CodeInRange ==
    (\/ call[1].op = "SetCode"
     \/ call[1].op = "SetErrorFromError" /\ call[1].err.kind # "nil") =>
        vm[1].Code \in ValidStatus

\* C20 (amended): Code is the integer last supplied, unchecked: after SetCode
\* its argument, after SetErrorFromError with a gocerr.Error the error's code,
\* with another non-nil error 500; SetData and SetErrorFromError(nil) keep it.
\* So Code is in 100..599 after a call that sets it exactly when the supplied
\* integer is.
C20_CodeIsWhatWasSupplied ==
    [][/\ call'[1].op = "SetCode" =>
             /\ vm'[1].Code = call'[1].arg
             /\ vm'[1].Code \in ValidStatus <=> call'[1].arg \in ValidStatus
       /\ (call'[1].op = "SetErrorFromError" /\ call'[1].err.kind = "custom") =>
             /\ vm'[1].Code = call'[1].err.Code
             /\ vm'[1].Code \in ValidStatus <=> call'[1].err.Code \in ValidStatus
       /\ (call'[1].op = "SetErrorFromError" /\ call'[1].err.kind = "std") =>
             vm'[1].Code = StatusInternalServerError
       /\ (\/ call'[1].op = "SetData"
           \/ call'[1].op = "SetErrorFromError" /\ call'[1].err.kind = "nil") =>
             vm'[1].Code = vm[1].Code]_vars

\* SetErrorFromError received a gocerr.Error whose code is no HTTP status code
C20_Witness ==
    /\ call[1].op = "SetErrorFromError"
    /\ call[1].err.kind = "custom"
    /\ call[1].err.Code = 999
    /\ vm[1].Code = 999

View(f) ==
    <<vm[f], IF vm[f].Error = NilPtr THEN <<>> ELSE <<heap[vm[f].Error]>>>>

\* no two envelopes reference the same ResponseErrorVM or the same entry
NoSharing ==
    \A f \in Flows : \A g \in Flows \ {f} :
        (vm[f].Error # NilPtr /\ vm[g].Error # NilPtr) =>
            /\ vm[f].Error # vm[g].Error
            /\ (AddrsOf(ErrorOf(f).ErrorFields) \cap AddrsOf(ErrorOf(g).ErrorFields))
                  \ {NilPtr} = {}

\* C22: two flows that each build their own envelope share no mutable state:
\* under every interleaving the envelopes never reference the same
\* ResponseErrorVM or the same field entry, and a call of one flow leaves
\* what the other flow's envelope shows (Code, Data, message, entries) as it
\* was.
C22_NoSharedState ==
    [][/\ NoSharing'
       /\ \A f \in Flows :
             (call'[f] # call[f] \/ View(f)' # View(f)) =>
                \A g \in Flows \ {f} : View(g)' = View(g)]_vars

\* both flows called SetErrorFromError with the same gocerr.Error carrying two
\* fields; each envelope has a ResponseErrorVM and two entries of its own
C22_Witness ==
    /\ call[1].op = "SetErrorFromError"
    /\ call[2].op = "SetErrorFromError"
    /\ call[1].err = call[2].err
    /\ call[1].err.kind = "custom"
    /\ Len(call[1].err.ErrorFields) = 2
    /\ vm[1].Error # vm[2].Error
    /\ Cardinality(AddrsOf(ErrorOf(1).ErrorFields)
                      \cup AddrsOf(ErrorOf(2).ErrorFields)) = 4

\* C23: each plain setter changes the one attribute it names.  SetCode(x)
\* sets Code to x and leaves Error and Data; on a new envelope it gives the
\* envelope with Code x, no Error and the zero Data; twice it gives what it
\* gives once.  SetData changes Data only, SetMessage the message only.
C23_SettersChangeOneAttribute ==
    [][/\ call'[1].op = "SetCode" =>
             /\ vm'[1] = [vm[1] EXCEPT !.Code = call'[1].arg]
             /\ heap' = heap
             /\ cur' = cur
       /\ call'[1].op = "SetData" =>
             /\ vm'[1].Code = vm[1].Code
             /\ vm'[1].Error = vm[1].Error
             /\ heap' = heap
             /\ cur' = cur
       /\ call'[1].op = "SetMessage" =>
             /\ vm' = vm
             /\ cur' = cur
             /\ DOMAIN heap' = DOMAIN heap
             /\ heap'[cur[1]].ErrorFields = heap[cur[1]].ErrorFields
             /\ \A a \in DOMAIN heap \ {cur[1]} : heap'[a] = heap[a]
       /\ \A x \in AnyCodes :
             /\ SetCode(SetCode(vm[1], x), x) = SetCode(vm[1], x)
             /\ SetCode(NewResponseVM, x) =
                   [Code |-> x, Error |-> NilPtr, Data |-> ZeroData]
       /\ \A d \in DataArgs : SetData(vm[1], d) = [vm[1] EXCEPT !.Data = d]
       /\ cur[1] # NilPtr =>
             \A m \in Texts :
                 SetMessage(heap[cur[1]], m) = [heap[cur[1]] EXCEPT !.Message = m]]_vars

\* SetMessage was called on a ResponseErrorVM that holds an entry and is
\* attached to an envelope with a code and a payload
C23_Witness ==
    /\ call[1].op = "SetMessage"
    /\ cur[1] # NilPtr
    /\ vm[1].Error = cur[1]
    /\ heap[cur[1]].Message = "boom"
    /\ len(heap[cur[1]].ErrorFields) = 1
    /\ vm[1].Code = 200
    /\ vm[1].Data # ZeroData

\* C24: SetErrorFromError with a non-nil error leaves Data as it was, so an
\* envelope can hold an Error and a payload at the same time; and no
\* operation on an envelope clears the one when it sets the other: SetData
\* leaves Error and the attached ResponseErrorVM, and SetError, SetCode and
\* SetErrorFromError(nil) leave Data.
C24_ErrorAndDataIndependent ==
    [][/\ (call'[1].op = "SetErrorFromError" /\ call'[1].err.kind # "nil") =>
             /\ vm'[1].Data = vm[1].Data
             /\ vm'[1].Error # NilPtr
       /\ call'[1].op = "SetData" =>
             /\ vm'[1].Error = vm[1].Error
             /\ heap' = heap
       /\ call'[1].op \in {"SetError", "SetCode", "SetErrorFromError"} =>
             vm'[1].Data = vm[1].Data]_vars

\* an envelope with a payload received a plain error and holds both
C24_Witness ==
    /\ call[1].op = "SetErrorFromError"
    /\ call[1].err.kind = "std"
    /\ vm[1].Data = NonZeroValue(typeT)
    /\ vm[1].Error # NilPtr
    /\ ErrorOf(1).Message = "boom"

\* C25: ParseError is idempotent: a second ParseError(err) right after a
\* first one with the same error, nil, gocerr.Error with or without fields,
\* or plain, leaves the message and the (Field, Message) pairs of the entries,
\* in their order, as the first call left them.
C25_ParseErrorIdempotent ==
    [][(/\ call[1].op = "ParseError"
        /\ call'[1].op = "ParseError"
        /\ call'[1].err = call[1].err) =>
          /\ cur' = cur
          /\ heap'[cur[1]].Message = heap[cur[1]].Message
          /\ PairsOf(heap'[cur[1]].ErrorFields) = PairsOf(heap[cur[1]].ErrorFields)
          /\ heap'[cur[1]].ErrorFields.isNil = heap[cur[1]].ErrorFields.isNil]_vars

\* ParseError with a gocerr.Error carrying two fields was called while the
\* two lowest addresses were taken, as they are by the entries of an earlier
\* ParseError with it: the entries are new ones
C25_Witness ==
    /\ call[1].op = "ParseError"
    /\ call[1].err.kind = "custom"
    /\ call[1].err.ErrorFields = <<EmailRequired, PasswordTooShort>>
    /\ cur[1] # NilPtr
    /\ AddrsOf(heap[cur[1]].ErrorFields) = {3, 4}
    /\ \A a \in DOMAIN heap : AddrsOf(heap[a].ErrorFields) \cap {1, 2} = {}

\* C26: the two implementations of ResponseErrorVM are observationally
\* equivalent: after the same SetMessage, AddErrorFields and ParseError calls
\* (nil, gocerr.Error and plain errors) from NewResponseErrorVM on, both have
\* the same message and the same entries in the same order, a nil and an
\* empty slice counting as equal.
C26_ImplementationsEquivalent ==
    (cur[1] # NilPtr /\ cur[2] # NilPtr) =>
        /\ heap[cur[1]].Message = heap[cur[2]].Message
        /\ PairsOf(heap[cur[1]].ErrorFields) = PairsOf(heap[cur[2]].ErrorFields)

====
